---- MODULE Spec2Model ----
(***************************************************************************)
(* Model of src/src/firmware_dust.cpp: the CRC-16 helper crc16 and the     *)
(* firmware image builder default_firmware.                                *)
(*                                                                         *)
(* A behaviour is one call of the public interface: either                 *)
(* default_firmware(model), which itself calls crc16 on each of the two    *)
(* user-settings blocks, or crc16(seed, input, Len(input)) called directly *)
(* on a caller-supplied buffer.  pc is the position inside the call.       *)
(*                                                                         *)
(* std::vector<uint8_t>(len, 0) is held sparsely: len, the fill byte the   *)
(* constructor was given, and the map of the offsets assigned since.  A    *)
(* byte never assigned reads as the fill byte.  An assignment past the end *)
(* of the vector sets oob.                                                 *)
(***************************************************************************)
EXTENDS Integers, Sequences, FiniteSets, TLC

VARIABLES pc, caller, model, firmware, i, u, seed, input, base, n, ci, crc, ret

vars == <<pc, caller, model, firmware, i, u, seed, input, base, n, ci, crc, ret>>

(* ---------------- bounds of the explored inputs ---------------- *)

\* Model is an enum class over int: the enumerators are 0..4, values above
\* them are representable and are the "unmapped" inputs.
MaxModelValue == 5

\* longest buffer handed to a direct crc16 call
MaxLen == 3

\* bytes the direct crc16 calls are fed
ByteVals == {\H00, \H01, \H44, \H80, \HFF}

\* seeds the direct crc16 calls are given
Seeds == {\H0000, \HFFFF, \HA001, \H1234}

(* ---------------- enum class Model ---------------- *)

Ds == 0

Lite == 1

Dsi == 2

Ique == 3

IqueLite == 4

NamedModels == {Ds, Lite, Dsi, Ique, IqueLite}

ModelValues == 0..MaxModelValue

(* ---------------- fixed-width integer arithmetic ---------------- *)

RECURSIVE Pow2(_)
Pow2(k) == IF k = 0 THEN 1 ELSE 2 * Pow2(k - 1)

\* conversion to uint16_t
Trunc16(x) == x % 65536

\* conversion to uint8_t
Trunc8(x) == x % 256

\* x >> k on a non-negative value
Shr(x, k) == x \div Pow2(k)

\* x << k on a non-negative value (size_t, no wrap at the sizes used)
Shl(x, k) == x * Pow2(k)

\* a ^ b on non-negative values
RECURSIVE Xor(_, _)
Xor(a, b) ==
  IF a = 0 THEN b
  ELSE IF b = 0 THEN a
  ELSE (((a % 2) + (b % 2)) % 2) + 2 * Xor(a \div 2, b \div 2)

(* ---------------- crc16 ---------------- *)

\* one pass of the inner loop body: lines 20-23
crc16_bit_poly8005(c) ==
  IF c % 2 = 1 THEN Trunc16(Xor(Shr(c, 1), \H8005)) ELSE Trunc16(Shr(c, 1))

crc16_bit(c) ==
  IF c % 2 = 1 THEN Trunc16(Xor(Shr(c, 1), \HA001)) ELSE Trunc16(Shr(c, 1))

\* the inner loop, j = 0..7
RECURSIVE crc16_bits(_, _)
crc16_bits(c, j) == IF j >= 8 THEN c ELSE crc16_bits(crc16_bit(c), j + 1)

\* one pass of the outer loop body: crc ^= data[i], then the inner loop
crc16_byte(c, d) == crc16_bits(Trunc16(Xor(c, d)), 0)

\* the outer loop over data[lo..hi), split in halves: the passes run in the
\* same order as the for loop runs them.  The left half is evaluated (the
\* test left \in Nat, always true of a uint16_t) before the right half
\* starts, so the evaluation nests only logarithmically deep.
RECURSIVE crc16_from(_, _, _, _)
crc16_from(c, data, lo, hi) ==
  IF hi <= lo THEN c
  ELSE IF hi = lo + 1 THEN crc16_byte(c, data[lo + 1])
  ELSE LET mid == (lo + hi) \div 2
           left == crc16_from(c, data, lo, mid)
       IN IF left \in Nat THEN crc16_from(left, data, mid, hi) ELSE left

\* the whole function on a buffer given as a sequence of bytes
crc16(c, data) == crc16_from(c, data, 0, Len(data))

(* ---------------- std::vector<uint8_t> ---------------- *)

NoBytes == [x \in {} |-> 0]

\* std::vector<uint8_t>(len, fill)
NewVector(len, fill) == [len |-> len, fill |-> fill, mem |-> NoBytes, oob |-> FALSE]

\* v[off] as an rvalue
Read(v, off) == IF off \in DOMAIN v.mem THEN v.mem[off] ELSE v.fill

\* v[off] = val, val converted to uint8_t
Write(v, off, val) ==
  IF off >= 0 /\ off < v.len
  THEN [v EXCEPT !.mem = [x \in (DOMAIN v.mem) \cup {off} |->
                            IF x = off THEN Trunc8(val) ELSE v.mem[x]]]
  ELSE [v EXCEPT !.oob = TRUE]

\* consecutive assignments v[off] = vals[1], v[off+1] = vals[2], ...
RECURSIVE WriteSeq(_, _, _)
WriteSeq(v, off, vals) ==
  IF vals = <<>> THEN v
  ELSE WriteSeq(Write(v, off, Head(vals)), off + 1, Tail(vals))

\* the value before construction
NoVector == NewVector(0, 0)

(* ---------------- default_firmware: pure parts ---------------- *)

\* the first switch, lines 35-50
LenOf_dsi_as_ds(m) ==
  IF m = Dsi THEN \H40000
  ELSE IF m \in {Ds, Lite} THEN \H40000
  ELSE IF m \in {Ique, IqueLite} THEN \H80000
  ELSE \H40000

LenOf_default_small(m) ==
  IF m = Dsi THEN \H20000
  ELSE IF m \in {Ds, Lite} THEN \H40000
  ELSE IF m \in {Ique, IqueLite} THEN \H80000
  ELSE \H20000

LenOf(m) ==
  IF m = Dsi THEN \H20000
  ELSE IF m \in {Ds, Lite} THEN \H40000
  ELSE IF m \in {Ique, IqueLite} THEN \H80000
  ELSE \H40000

\* uint16_t values[] of lines 99-100
Values(len) == <<Trunc16(Shr(len - \H200, 3)), \H0B51, \H0DB3, \H4F5D, \HFFFF>>

\* const char *name = "Dust"
Name == <<\H44, \H75, \H73, \H74>>

\* size_t start = len - 0x200 + u * 0x100
StartOf(len, blk) == len - \H200 + blk * \H100

\* data[k] as crc16 sees it: the caller's buffer, or firmware.data() + base
DataAt(k) == IF caller = "fw" THEN Read(firmware, base + k) ELSE input[k + 1]

(* ---------------- initial states ---------------- *)

RECURSIVE SeqsUpTo(_)
SeqsUpTo(k) ==
  IF k = 0 THEN {<<>>}
  ELSE LET S == SeqsUpTo(k - 1)
       IN S \cup {Append(s, b) : s \in {t \in S : Len(t) = k - 1}, b \in ByteVals}

Inputs == SeqsUpTo(MaxLen)

Init ==
  /\ firmware = NoVector
  /\ i = 0 /\ u = 0 /\ base = 0 /\ ci = 0 /\ crc = 0 /\ ret = 0
  /\ \/ /\ caller = "fw"
        /\ pc = "fw_call"
        /\ model \in ModelValues
        /\ seed = 0 /\ input = <<>> /\ n = 0
     \/ /\ caller = "crc"
        /\ pc = "crc_entry"
        /\ model = Ds
        /\ seed \in Seeds
        /\ input \in Inputs
        /\ n = Len(input)

(* ---------------- default_firmware: steps ---------------- *)

\* lines 34-52: pick the length, allocate the zero-filled vector
FwAlloc_fill_ff ==
  /\ pc = "fw_call"
  /\ firmware' = NewVector(LenOf(model), \HFF)
  /\ pc' = "fw_header"
  /\ UNCHANGED <<caller, model, i, u, seed, input, base, n, ci, crc, ret>>

FwAlloc ==
  /\ pc = "fw_call"
  /\ firmware' = NewVector(LenOf(model), 0)
  /\ pc' = "fw_header"
  /\ UNCHANGED <<caller, model, i, u, seed, input, base, n, ci, crc, ret>>

\* lines 55-64: 0x04..0x07 and "MACh"
FwHeader_upper_h ==
  /\ pc = "fw_header"
  /\ firmware' = WriteSeq(firmware, \H04,
                          <<\H00, \HDB, \H1F, \H0F, \H4D, \H41, \H43, \H48>>)
  /\ pc' = "fw_val14"
  /\ UNCHANGED <<caller, model, i, u, seed, input, base, n, ci, crc, ret>>

FwHeader ==
  /\ pc = "fw_header"
  /\ firmware' = WriteSeq(firmware, \H04,
                          <<\H00, \HDB, \H1F, \H0F, \H4D, \H41, \H43, \H68>>)
  /\ pc' = "fw_val14"
  /\ UNCHANGED <<caller, model, i, u, seed, input, base, n, ci, crc, ret>>

\* lines 67-69: val14 = (uint16_t)((len >> 17) << 12), little-endian at 0x14
FwVal14_shift16 ==
  /\ pc = "fw_val14"
  /\ LET val14 == Trunc16(Shl(Shr(firmware.len, 16), 12))
     IN firmware' = Write(Write(firmware, \H14, val14 % 256),
                          \H15, Shr(val14, 8) % 256)
  /\ pc' = "fw_arr18"
  /\ UNCHANGED <<caller, model, i, u, seed, input, base, n, ci, crc, ret>>

FwVal14 ==
  /\ pc = "fw_val14"
  /\ LET val14 == Trunc16(Shl(Shr(firmware.len, 17), 12))
     IN firmware' = Write(Write(firmware, \H14, val14 % 256),
                          \H15, Shr(val14, 8) % 256)
  /\ pc' = "fw_arr18"
  /\ UNCHANGED <<caller, model, i, u, seed, input, base, n, ci, crc, ret>>

\* lines 72-73: std::copy of arr18 to 0x18
FwArr18 ==
  /\ pc = "fw_arr18"
  /\ firmware' = WriteSeq(firmware, \H18, <<\H00, \H00, \H01, \H01, \H06>>)
  /\ pc' = "fw_model_byte"
  /\ UNCHANGED <<caller, model, i, u, seed, input, base, n, ci, crc, ret>>

\* lines 76-92: the second switch; it has no default, an unmapped value
\* leaves 0x1D as allocated
FwModelByte_lite_as_ds ==
  /\ pc = "fw_model_byte"
  /\ firmware' = IF model = Ds THEN Write(firmware, \H1D, \HFF)
                 ELSE IF model = Lite THEN Write(firmware, \H1D, \HFF)
                 ELSE IF model = Ique THEN Write(firmware, \H1D, \H57)
                 ELSE IF model = IqueLite THEN Write(firmware, \H1D, \H43)
                 ELSE IF model = Dsi THEN Write(firmware, \H1D, \H63)
                 ELSE firmware
  /\ pc' = "fw_1e"
  /\ UNCHANGED <<caller, model, i, u, seed, input, base, n, ci, crc, ret>>

FwModelByte ==
  /\ pc = "fw_model_byte"
  /\ firmware' = IF model = Ds THEN Write(firmware, \H1D, \HFF)
                 ELSE IF model = Lite THEN Write(firmware, \H1D, \H20)
                 ELSE IF model = Ique THEN Write(firmware, \H1D, \H57)
                 ELSE IF model = IqueLite THEN Write(firmware, \H1D, \H43)
                 ELSE IF model = Dsi THEN Write(firmware, \H1D, \H63)
                 ELSE firmware
  /\ pc' = "fw_1e"
  /\ UNCHANGED <<caller, model, i, u, seed, input, base, n, ci, crc, ret>>

\* lines 95-96
Fw1E ==
  /\ pc = "fw_1e"
  /\ firmware' = Write(Write(firmware, \H1E, \HFF), \H1F, \HFF)
  /\ i' = 0
  /\ pc' = "fw_values"
  /\ UNCHANGED <<caller, model, u, seed, input, base, n, ci, crc, ret>>

\* lines 101-104: one pass of the loop over values[]
FwValues ==
  /\ pc = "fw_values"
  /\ i < 5
  /\ LET val == Values(firmware.len)[i + 1]
     IN firmware' = Write(Write(firmware, \H20 + i * 2, val % 256),
                          \H21 + i * 2, Shr(val, 8) % 256)
  /\ i' = i + 1
  /\ UNCHANGED <<pc, caller, model, u, seed, input, base, n, ci, crc, ret>>

\* loop exit, and entry of the user-settings loop (line 107, u = 0)
FwValuesDone ==
  /\ pc = "fw_values"
  /\ i >= 5
  /\ u' = 0
  /\ pc' = "fw_user"
  /\ UNCHANGED <<caller, model, firmware, i, seed, input, base, n, ci, crc, ret>>

\* the interleaved name bytes of lines 118-121
NamePairs == <<Name[1], \H00, Name[2], \H00, Name[3], \H00, Name[4], \H00>>

\* lines 108-124 up to the call: flags, name, then crc16(0xFFFF, user, 0x70)
FwUserInit_both_active ==
  /\ pc = "fw_user"
  /\ u < 2
  /\ LET start == StartOf(firmware.len, u)
         f1 == Write(firmware, start + \H00, 5)
         f2 == Write(f1, start + \H02, 1)
         f3 == Write(f2, start + \H03, 1)
         f4 == Write(f3, start + \H04, 1)
     IN /\ firmware' = WriteSeq(f4, start + \H06, NamePairs)
        /\ base' = start
  /\ seed' = \HFFFF
  /\ n' = \H70
  /\ pc' = "crc_entry"
  /\ UNCHANGED <<caller, model, i, u, input, ci, crc, ret>>

FwUserInit ==
  /\ pc = "fw_user"
  /\ u < 2
  /\ LET start == StartOf(firmware.len, u)
         f1 == Write(firmware, start + \H00, 5)
         f2 == Write(f1, start + \H02, IF u = 0 THEN 1 ELSE 0)
         f3 == Write(f2, start + \H03, 1)
         f4 == Write(f3, start + \H04, 1)
     IN /\ firmware' = WriteSeq(f4, start + \H06, NamePairs)
        /\ base' = start
  /\ seed' = \HFFFF
  /\ n' = \H70
  /\ pc' = "crc_entry"
  /\ UNCHANGED <<caller, model, i, u, input, ci, crc, ret>>

\* lines 124-126 after the call: store the CRC little-endian, next block
FwStoreCrc_big_endian ==
  /\ pc = "fw_store"
  /\ firmware' = Write(Write(firmware, base + \H72, Shr(ret, 8) % 256),
                       base + \H73, ret % 256)
  /\ u' = u + 1
  /\ pc' = "fw_user"
  /\ UNCHANGED <<caller, model, i, seed, input, base, n, ci, crc, ret>>

FwStoreCrc ==
  /\ pc = "fw_store"
  /\ firmware' = Write(Write(firmware, base + \H72, ret % 256),
                       base + \H73, Shr(ret, 8) % 256)
  /\ u' = u + 1
  /\ pc' = "fw_user"
  /\ UNCHANGED <<caller, model, i, seed, input, base, n, ci, crc, ret>>

\* line 129: return firmware
FwReturn ==
  /\ pc = "fw_user"
  /\ u >= 2
  /\ pc' = "fw_done"
  /\ UNCHANGED <<caller, model, firmware, i, u, seed, input, base, n, ci, crc, ret>>

(* ---------------- crc16: steps ---------------- *)

\* line 16-17: parameter crc takes the seed, i = 0
CrcEntry ==
  /\ pc = "crc_entry"
  /\ crc' = seed
  /\ ci' = 0
  /\ pc' = "crc_loop"
  /\ UNCHANGED <<caller, model, firmware, i, u, seed, input, base, n, ret>>

\* lines 17-25: one pass of the outer loop
CrcLoop ==
  /\ pc = "crc_loop"
  /\ ci < n
  /\ crc' = crc16_byte(crc, DataAt(ci))
  /\ ci' = ci + 1
  /\ UNCHANGED <<pc, caller, model, firmware, i, u, seed, input, base, n, ret>>

\* line 26: return crc
CrcReturn_final_xor ==
  /\ pc = "crc_loop"
  /\ ci >= n
  /\ ret' = Xor(crc, \HFFFF)
  /\ pc' = IF caller = "fw" THEN "fw_store" ELSE "crc_done"
  /\ UNCHANGED <<caller, model, firmware, i, u, seed, input, base, n, ci, crc>>

CrcReturn ==
  /\ pc = "crc_loop"
  /\ ci >= n
  /\ ret' = crc
  /\ pc' = IF caller = "fw" THEN "fw_store" ELSE "crc_done"
  /\ UNCHANGED <<caller, model, firmware, i, u, seed, input, base, n, ci, crc>>

Next ==
  \/ FwAlloc
  \/ FwHeader
  \/ FwVal14
  \/ FwArr18
  \/ FwModelByte
  \/ Fw1E
  \/ FwValues
  \/ FwValuesDone
  \/ FwUserInit
  \/ FwStoreCrc
  \/ FwReturn
  \/ CrcEntry
  \/ CrcLoop
  \/ CrcReturn

Spec == Init /\ [][Next]_vars

(* ---------------- the returned image ---------------- *)

Returned == caller = "fw" /\ pc = "fw_done"

CrcReturned == caller = "crc" /\ pc = "crc_done"

\* little_endian_u16 of two bytes
LE16(lo, hi) == lo + 256 * hi

\* bytes [start, start + cnt) of a vector as a sequence
Slice(v, start, cnt) == [k \in 1..cnt |-> Read(v, start + k - 1)]

\* the asserts of main, lines 151-154
main_asserts(fw) ==
  /\ Read(fw, \H08) = \H4D
  /\ Read(fw, \H09) = \H41
  /\ Read(fw, \H0A) = \H43
  /\ Read(fw, \H0B) = \H68

(* ---------------- reference CRC-16, polynomial 0xA001 ---------------- *)
(* A 16-bit value is the set of the positions of its one bits; XOR is the  *)
(* symmetric difference, a right shift drops position 0 and lowers the     *)
(* rest.  0xA001 has the bits 15, 13 and 0.                                *)

BitsOf(x) == {b \in 0..15 : (x \div Pow2(b)) % 2 = 1}

RECURSIVE ValOf(_)
ValOf(S) == IF S = {} THEN 0
            ELSE LET b == CHOOSE c \in S : TRUE IN Pow2(b) + ValOf(S \ {b})

SymDiff(A, B) == (A \ B) \cup (B \ A)

RefShift(S) ==
  LET T == {b - 1 : b \in S \ {0}}
  IN IF 0 \in S THEN SymDiff(T, {15, 13, 0}) ELSE T

RECURSIVE RefShifts(_, _)
RefShifts(S, k) == IF k = 0 THEN S ELSE RefShifts(RefShift(S), k - 1)

\* XOR the byte into the low byte of the running value, then 8 shifts
RefByte(S, d) ==
  RefShifts((S \cap (8..15)) \cup SymDiff(S \cap (0..7), BitsOf(d) \cap (0..7)), 8)

RECURSIVE RefFold(_, _)
RefFold(S, data) ==
  IF data = <<>> THEN S ELSE RefFold(RefByte(S, Head(data)), Tail(data))

RefCrc16(s, data) == ValOf(RefFold(BitsOf(s), data))

(* ---------------- properties ---------------- *)

\* C1: in the returned image of every named model, each user-settings block
\* stores at 0x72..0x73, little-endian, the crc16 with seed 0xFFFF of its own
\* first 0x70 bytes.
C1_StoredCrcMatches ==
  (Returned /\ model \in NamedModels) =>
    \A blk \in {0, 1} :
      LET start == firmware.len - \H200 + blk * \H100
      IN LE16(Read(firmware, start + \H72), Read(firmware, start + \H73))
           = crc16(\HFFFF, Slice(firmware, start, \H70))

C1_Witness ==
  /\ Returned
  /\ model = Ique
  /\ LE16(Read(firmware, \H80000 - \H100 + \H72),
          Read(firmware, \H80000 - \H100 + \H73)) = ret
  /\ ret # 0

\* C2: the returned image has length 0x20000 for Dsi, 0x40000 for Ds and
\* Lite, 0x80000 for Ique and IqueLite.
C2_LengthTable ==
  Returned =>
    /\ model = Dsi => firmware.len = \H20000
    /\ model \in {Ds, Lite} => firmware.len = \H40000
    /\ model \in {Ique, IqueLite} => firmware.len = \H80000

C2_Witness == Returned /\ model = Dsi /\ firmware.len = \H20000

\* C3: crc16 agrees with the reference bit-reversed CRC-16 (polynomial
\* 0xA001) on every seed and buffer, at every position of its loop, and its
\* value stays within 16 bits.
C3_CrcIsReference ==
  /\ (caller = "crc" /\ pc = "crc_loop") =>
       /\ crc \in 0..65535
       /\ crc = RefCrc16(seed, SubSeq(input, 1, ci))
  /\ CrcReturned =>
       /\ ret \in 0..65535
       /\ ret = RefCrc16(seed, input)
       /\ crc16(seed, input) = RefCrc16(seed, input)

C3_Witness ==
  CrcReturned /\ Len(input) = MaxLen /\ seed = \H1234 /\ input[1] = \HFF /\ ret # seed

\* C4: byte 0x1D of the returned image is 0xFF for Ds, 0x20 for Lite, 0x57
\* for Ique, 0x43 for IqueLite and 0x63 for Dsi.
C4_ModelByte ==
  Returned =>
    /\ model = Ds => Read(firmware, \H1D) = \HFF
    /\ model = Lite => Read(firmware, \H1D) = \H20
    /\ model = Ique => Read(firmware, \H1D) = \H57
    /\ model = IqueLite => Read(firmware, \H1D) = \H43
    /\ model = Dsi => Read(firmware, \H1D) = \H63

C4_Witness == Returned /\ model = Lite /\ Read(firmware, \H1D) = \H20

\* C5 as stated: default_firmware(Ds) returns 0x40000 bytes with byte 0x14
\* = 0x00 and byte 0x15 = 0x00.
C5_Original ==
  (Returned /\ model = Ds) =>
    /\ firmware.len = \H40000
    /\ Read(firmware, \H14) = \H00
    /\ Read(firmware, \H15) = \H00

\* C5 amended: default_firmware(Ds) returns 0x40000 bytes with byte 0x14 =
\* 0x00 and byte 0x15 = 0x20, the little-endian bytes of (len >> 17) << 12 =
\* 0x2000.
C5_Amended ==
  (Returned /\ model = Ds) =>
    /\ firmware.len = \H40000
    /\ Read(firmware, \H14) = \H00
    /\ Read(firmware, \H15) = \H20
    /\ LE16(Read(firmware, \H14), Read(firmware, \H15))
         = ((firmware.len \div 131072) * 4096) % 65536

C5_Witness == Returned /\ model = Ds /\ \H15 \in DOMAIN firmware.mem

\* C6: called with a value outside the five enumerators, default_firmware
\* runs to its return with every assignment inside the vector, and the image
\* has the length 0x40000 of Ds and Lite.
C6_UnmappedFallsBack ==
  (caller = "fw" /\ model \notin NamedModels) =>
    /\ ~firmware.oob
    /\ pc # "fw_call" => firmware.len = \H40000
    /\ pc # "fw_call" => firmware.len = LenOf(Ds) /\ firmware.len = LenOf(Lite)

C6_Witness == Returned /\ model \notin NamedModels /\ firmware.len = \H40000

\* C7: in the returned image byte 0x02 of block 0 is 1 and byte 0x02 of
\* block 1 is 0, for every model.
C7_ActiveSlot ==
  Returned =>
    /\ Read(firmware, firmware.len - \H200 + \H02) = 1
    /\ Read(firmware, firmware.len - \H100 + \H02) = 0

C7_Witness ==
  /\ Returned
  /\ model = IqueLite
  /\ (firmware.len - \H100 + \H02) \in DOMAIN firmware.mem
  /\ (firmware.len - \H200 + \H02) \in DOMAIN firmware.mem

\* C8: bytes 0x08..0x0B of the returned image are 0x4D 0x41 0x43 0x68 for
\* every model, so the asserts of main hold on it.
C8_MachTag ==
  Returned =>
    /\ Slice(firmware, \H08, 4) = <<\H4D, \H41, \H43, \H68>>
    /\ main_asserts(firmware)

C8_Witness == Returned /\ model = Dsi /\ Read(firmware, \H0B) = \H68

\* C9: crc16 on an empty buffer returns its seed; crc16(0xFFFF, []) is
\* 0xFFFF.
C9_EmptyReturnsSeed ==
  (CrcReturned /\ input = <<>>) =>
    /\ ret = seed
    /\ seed = \HFFFF => ret = \HFFFF

C9_Witness == CrcReturned /\ input = <<>> /\ seed = \HFFFF /\ ret = \HFFFF

\* the offsets default_firmware assigns
HeaderOffsets == (\H04..\H0B) \cup (\H14..\H15) \cup (\H18..\H1F) \cup (\H20..\H29)

BlockOffsets == {\H00} \cup (\H02..\H04) \cup (\H06..\H0D) \cup (\H72..\H73)

WrittenOffsets(len) ==
  HeaderOffsets
    \cup {len - \H200 + o : o \in BlockOffsets}
    \cup {len - \H100 + o : o \in BlockOffsets}

\* C10: in the returned image, for every model value, every byte outside the
\* written fields is 0x00, and the header fields and the two blocks are
\* pairwise disjoint.
C10_RestIsZero ==
  Returned =>
    /\ \A off \in 0..(firmware.len - 1) :
         Read(firmware, off) # 0 => off \in WrittenOffsets(firmware.len)
    /\ HeaderOffsets \cap ((firmware.len - \H200)..(firmware.len - 1)) = {}
    /\ \A o \in HeaderOffsets : o < firmware.len - \H200
    /\ firmware.len - \H200 + \H100 = firmware.len - \H100

C10_Witness ==
  /\ Returned
  /\ model \notin NamedModels
  /\ Read(firmware, \H1D) = 0
  /\ Read(firmware, firmware.len - 1) = 0
  /\ Read(firmware, \H29) = \HFF

====
